---- MODULE Spec2Model ----
(***************************************************************************)
(* A model of gittreehash (src/gittreehash.go): hashSomething walking a    *)
(* filesystem that other processes may change while it is being walked.    *)
(*                                                                         *)
(* Bytes and digests.  A byte stream is a sequence of tokens <<b, pre>>:   *)
(* an ordinary byte b is <<b, <<>>>>; a SHA-256 value is the single token  *)
(* <<-1, pre>>, HashLen bytes wide, that carries the stream it was         *)
(* computed over, so that the digest is collision-free by construction.    *)
(* The all-zero array [32]byte{} is the token <<-2, <<>>>>.                *)
(*                                                                         *)
(* Paths are sequences of names, a name is a sequence of byte values.      *)
(* A symbolic link's referent lies outside the modelled tree: opening one  *)
(* either fails or yields some regular file's content, and a link never    *)
(* resolves to a directory.                                                *)
(***************************************************************************)
EXTENDS Integers, Sequences, FiniteSets, TLC

VARIABLES
    fs,        \* the filesystem: existing path -> node
    env,       \* history: the changes other processes made to fs: how many
               \* (n), whether any while the program ran (during), and those
               \* made between two runs (between)
    status,    \* "idle" | "running" | "done" | "panic"
    stack,     \* the call stack of hashSomething, innermost call last
    ret,       \* the values the last finished call returned
    rets,      \* history: every finished call of this run, in order of return
    log,       \* history: every filesystem call of this run, in order
    runs,      \* number of runs of the program started so far
    prevRets   \* history: rets of the previous run

vars == <<fs, env, status, stack, ret, rets, log, runs, prevRets>>
progVars == <<status, stack, ret, rets, log, runs, prevRets>>

----------------------------------------------------------------------------
(* Bounds *)

MaxEnvOps == 3      \* changes other processes make to the filesystem (Spec)
MaxSetup == 3       \* changes made before the first run (SpecTwice)

----------------------------------------------------------------------------
(* Program constants *)

HashLen == 32
ExecBits == 73      \* 0o111

ErrUnsupportedFileType == "gittreehash-error-unsupported-file-type"
ErrIO == "gittreehash-error-io"
ErrConcurrentIO == "gittreehash-error-concurrent-io"

\* io/fs type bits of a FileMode, by the letter FileMode.String gives them
ModeDir == "d"
ModeSymlink == "L"
ModeNamedPipe == "p"
ModeSocket == "S"
ModeDevice == "D"
ModeCharDevice == "c"
ModeIrregular == "?"
ModeType ==
    {ModeDir, ModeSymlink, ModeNamedPipe, ModeSocket, ModeDevice,
     ModeCharDevice, ModeIrregular}

----------------------------------------------------------------------------
(* Bytes, decimal formatting, digest *)

B(b) == <<b, <<>>>>
Bytes(s) == [k \in 1..Len(s) |-> B(s[k])]

ZeroHash == <<-2, <<>>>>

sha256(data) == <<-1, data>>

TokenLen(t) == IF t[1] < 0 THEN HashLen ELSE 1

RECURSIVE ByteLen(_)
ByteLen(s) == IF s = <<>> THEN 0 ELSE TokenLen(Head(s)) + ByteLen(Tail(s))

RECURSIVE Itoa(_)
Itoa(n) ==
    IF n < 0 THEN <<45>> \o Itoa(-n)
    ELSE IF n < 10 THEN <<48 + n>>
    ELSE Append(Itoa(n \div 10), 48 + (n % 10))

RECURSIVE BitAnd(_, _)
BitAnd(x, y) ==
    IF x = 0 \/ y = 0 THEN 0
    ELSE (x % 2) * (y % 2) + 2 * BitAnd(x \div 2, y \div 2)

----------------------------------------------------------------------------
(* The filesystem *)

Root == <<>>
Names == {<<97>>, <<98>>}                  \* "a", "b"
Contents == {<<>>, <<120>>, <<121>>}       \* "", "x", "y"

Node(kind, perm, data) == [kind |-> kind, perm |-> perm, data |-> data, ents |-> <<>>]
NoNode == Node("none", 0, <<>>)

FileNodes ==
    {Node("file", 420, c) : c \in Contents}
        \cup {Node("file", 493, <<120>>), Node("file", 417, <<120>>)}
TargetString == <<116, 97, 114, 103, 101, 116, 32, 115, 116, 114, 105, 110, 103>>
LinkNodes == {Node("symlink", 511, <<120>>), Node("symlink", 511, TargetString)}
DirNodes == {Node("dir", 493, <<>>)}
SpecialNodes ==
    {Node(k, 420, <<>>) : k \in {"pipe", "socket", "blockdev", "chardev", "irregular"}}
AllNodes == FileNodes \cup LinkNodes \cup DirNodes \cup SpecialNodes
QuietNodes == {n \in FileNodes : n.perm = 420} \cup LinkNodes \cup DirNodes

IsPrefix(p, q) == Len(p) <= Len(q) /\ SubSeq(q, 1, Len(p)) = p
Parent(p) == SubSeq(p, 1, Len(p) - 1)
Last(p) == p[Len(p)]
Join(pth, name) == Append(pth, name)

NodeAt(f, p) == IF p \in DOMAIN f THEN f[p] ELSE NoNode

InsertAt(s, k, x) == SubSeq(s, 1, k - 1) \o <<x>> \o SubSeq(s, k, Len(s))
Without(s, x) == SelectSeq(s, LAMBDA y : y # x)
Orders(s) ==
    {t \in [1..Len(s) -> {s[k] : k \in 1..Len(s)}] :
        \A i, j \in 1..Len(s) : i # j => t[i] # t[j]}

\* The places where a node can be created or replaced.
Slots(f) ==
    {Root} \cup {Join(d, n) : d \in {q \in DOMAIN f : f[q].kind = "dir"}, n \in Names}

\* fs after path p is given node n (rename over p, create, write, chmod):
\* whatever was below p is gone; a new name is listed at place pos.
PutNode(f, p, n, pos) ==
    LET keep == {q \in DOMAIN f : ~IsPrefix(p, q)} \cup {p}
        listed == p = Root \/ p \in DOMAIN f
    IN  [q \in keep |->
            IF q = p THEN n
            ELSE IF ~listed /\ q = Parent(p)
                 THEN [f[q] EXCEPT !.ents = InsertAt(@, pos, Last(p))]
            ELSE f[q]]

RemoveNode(f, p) ==
    LET keep == {q \in DOMAIN f : ~IsPrefix(p, q)}
    IN  [q \in keep |->
            IF p # Root /\ q = Parent(p)
            THEN [f[q] EXCEPT !.ents = Without(@, Last(p))]
            ELSE f[q]]

EnvEntry(op, p, old, new) == [op |-> op, path |-> p, old |-> old, new |-> new]

Changed(e) ==
    [n |-> env.n + 1,
     during |-> env.during \/ status = "running",
     between |-> IF status = "idle" /\ runs = 1 THEN Append(env.between, e)
                 ELSE env.between]

EnvPut(p, n, pos) ==
    /\ p \in Slots(fs)
    /\ n \in AllNodes
    /\ NodeAt(fs, p) # n
    /\ pos \in 1..(IF p = Root \/ p \in DOMAIN fs THEN 1 ELSE Len(fs[Parent(p)].ents) + 1)
    /\ fs' = PutNode(fs, p, n, pos)
    /\ env' = Changed(EnvEntry("put", p, NodeAt(fs, p), n))
    /\ UNCHANGED progVars

EnvRemove(p) ==
    /\ p \in DOMAIN fs
    /\ fs' = RemoveNode(fs, p)
    /\ env' = Changed(EnvEntry("remove", p, fs[p], NoNode))
    /\ UNCHANGED progVars

\* The directory's enumeration order changes, its entries do not.
EnvReorder(p, order) ==
    /\ p \in DOMAIN fs
    /\ fs[p].kind = "dir"
    /\ order \in Orders(fs[p].ents)
    /\ order # fs[p].ents
    /\ fs' = [fs EXCEPT ![p].ents = order]
    /\ env' = Changed(EnvEntry("reorder", p, fs[p], fs'[p]))
    /\ UNCHANGED progVars

----------------------------------------------------------------------------
(* The filesystem collaborator (fsx.FS), as seen by one call *)

Mode0 == [type |-> {}, perm |-> 0]

TypeBits(kind) ==
    CASE kind = "file" -> {}
      [] kind = "dir" -> {ModeDir}
      [] kind = "symlink" -> {ModeSymlink}
      [] kind = "pipe" -> {ModeNamedPipe}
      [] kind = "socket" -> {ModeSocket}
      [] kind = "blockdev" -> {ModeDevice}
      [] kind = "chardev" -> {ModeDevice, ModeCharDevice}
      [] OTHER -> {ModeIrregular}

\* fsx.Lstat: the final symlink is not followed.
FsLstat(f, p) ==
    IF p \in DOMAIN f
    THEN [ok |-> TRUE, mode |-> [type |-> TypeBits(f[p].kind), perm |-> f[p].perm],
          size |-> Len(f[p].data)]
    ELSE [ok |-> FALSE, mode |-> Mode0, size |-> 0]

File(ok, kind, snap) == [ok |-> ok, kind |-> kind, snap |-> snap]
NoFile == File(FALSE, "none", <<>>)

\* fsys.Open: the results the call can have.
FsOpen(f, p) ==
    LET k == NodeAt(f, p).kind
    IN  CASE k = "file" -> {File(TRUE, "file", f[p].data)}
          [] k = "dir" -> {File(TRUE, "dir", <<>>)}
          [] k \in {"none", "socket"} -> {NoFile}
          [] OTHER -> {NoFile} \cup {File(TRUE, "other", c) : c \in Contents}

\* Reading an open file to its end: a directory handle cannot be read; a
\* regular file is read as it is now, written in place since it was opened or
\* not; a file no longer at its path is read as it was.
FsRead(f, p, h) ==
    IF h.kind = "dir" THEN [ok |-> FALSE, data |-> <<>>]
    ELSE IF h.kind = "file" /\ NodeAt(f, p).kind = "file"
         THEN [ok |-> TRUE, data |-> f[p].data]
    ELSE [ok |-> TRUE, data |-> h.snap]

FsReadlink(f, p) ==
    IF NodeAt(f, p).kind = "symlink"
    THEN [ok |-> TRUE, target |-> f[p].data]
    ELSE [ok |-> FALSE, target |-> <<>>]

\* fsx.ReadDir: the entries' names in the directory's enumeration order, and
\* the type each entry has as it is listed.
FsReadDir(f, p) ==
    IF NodeAt(f, p).kind = "dir"
    THEN [ok |-> TRUE, ents |-> f[p].ents,
          types |-> [k \in 1..Len(f[p].ents) |->
                        TypeBits(NodeAt(f, Join(p, f[p].ents[k])).kind)]]
    ELSE [ok |-> FALSE, ents |-> <<>>, types |-> <<>>]

----------------------------------------------------------------------------
(* Errors *)

Error(kind, p, typ, claimed, observed) ==
    [kind |-> kind, path |-> p, typ |-> typ, claimed |-> claimed, observed |-> observed]
NoErr == Error("nil", <<>>, "", 0, 0)

NewErrUnsupportedFileType(typ, pth) == Error(ErrUnsupportedFileType, pth, typ, 0, 0)

----------------------------------------------------------------------------
(* hashStream and the pieces of hashSomething *)

\* io.Copy into sha256: the digest of everything read and the bytes read, or
\* an I/O error when a reader fails.
hashStream(data, readOk, p) ==
    IF readOk
    THEN [hash |-> sha256(data), contentSize |-> ByteLen(data), err |-> NoErr]
    ELSE [hash |-> ZeroHash, contentSize |-> ByteLen(data),
          err |-> Error(ErrIO, p, "", 0, 0)]

\* Faulty variant: the preamble without its zero byte.
BlobPreambleNoTerminator(claimedSize) ==
    Bytes(<<98, 108, 111, 98, 32>> \o Itoa(claimedSize))

BlobPreamble(claimedSize) == Bytes(<<98, 108, 111, 98, 32>> \o Itoa(claimedSize) \o <<0>>)

TreePreamble(bufLen) == Bytes(<<116, 114, 101, 101, 32>> \o Itoa(bufLen) \o <<0>>)

\* Faulty variant: the preamble alone is hashed.
TreeObjectHeaderOnly(buf) == TreePreamble(ByteLen(buf))

\* io.MultiReader(&preamble, &buf): what the tree object's hash covers.
TreeObject(buf) == TreePreamble(ByteLen(buf)) \o buf

\* switch mode & fs.ModeType
TypeSwitch(mode) ==
    LET t == mode.type \cap ModeType
    IN  CASE t = {} -> "file"
          [] t = {ModeSymlink} -> "symlink"
          [] t = {ModeDir} -> "dir"
          [] t = {ModeNamedPipe} -> "pipe"
          [] t = {ModeSocket} -> "socket"
          [] t = {ModeDevice} \/ t = {ModeCharDevice} -> "device"
          [] t = {ModeIrregular} -> "irregular"
          [] OTHER -> "panic"

\* Faulty variant: only a file that grew is noticed.
SizeMismatchGrowthOnly(contentSize, claimedSize) == contentSize > claimedSize

SizeMismatch(contentSize, claimedSize) == contentSize # claimedSize

\* switch dirEntMode & fs.ModeType: the bytes written before the name; <<>>
\* stands for the panic of the default case.
ModeString(dirEntMode) ==
    LET t == dirEntMode.type \cap ModeType
    IN  CASE t = {} ->
                IF BitAnd(dirEntMode.perm, ExecBits) # 0
                THEN <<49, 48, 48, 55, 53, 53, 32>>       \* "100755 "
                ELSE <<49, 48, 48, 54, 52, 52, 32>>       \* "100644 "
          [] t = {ModeSymlink} -> <<49, 50, 48, 48, 48, 48, 32>>   \* "120000 "
          [] t = {ModeDir} -> <<52, 48, 48, 48, 48, 32>>           \* "40000 "
          [] OTHER -> <<>>

\* Faulty variant: a newline closes each record.
EntryRecordDelimited(modeString, name, hash) ==
    Bytes(modeString) \o Bytes(name) \o <<B(0)>> \o <<hash>> \o <<B(10)>>

EntryRecord(modeString, name, hash) ==
    Bytes(modeString) \o Bytes(name) \o <<B(0)>> \o <<hash>>

\* Faulty variant: an entry that fails is passed over.
ChildFailedNever(err) == FALSE

\* if err != nil, after the recursive call
ChildFailed(err) == err # NoErr

\* Faulty variant: mode 0 is returned, as beside a failed Lstat.
ReturnedModeZero(fr) == Mode0

\* The mode a call returns beside its hash: the one its own Lstat gave.
ReturnedMode(fr) == fr.mode

\* The order in which the entries ReadDir returned are visited and composed.
VisitOrder(dirEnts) == dirEnts

----------------------------------------------------------------------------
(* The program *)

Frame(p) ==
    [pth |-> p, pc |-> "lstat", mode |-> Mode0, claimedSize |-> 0,
     preamble |-> <<>>, f |-> NoFile, dirEnts |-> <<>>, i |-> 0, buf |-> <<>>]

NoRet == [set |-> FALSE, hash |-> ZeroHash, mode |-> Mode0, err |-> NoErr]

NoData == <<-1>>

LogEntry(op, p, ok, mode, ents, types) ==
    [op |-> op, path |-> p, ok |-> ok, mode |-> mode, ents |-> ents, types |-> types]

Top == stack[Len(stack)]
Running == status = "running" /\ stack # <<>>

Return(fr, hash, err, data) ==
    /\ stack' = SubSeq(stack, 1, Len(stack) - 1)
    /\ ret' = [set |-> TRUE, hash |-> hash, mode |-> ReturnedMode(fr), err |-> err]
    /\ rets' = Append(rets,
                 [pth |-> fr.pth, hash |-> hash, mode |-> ReturnedMode(fr), err |-> err,
                  claimed |-> fr.claimedSize, data |-> data, branch |-> fr.pc])
    /\ status' = IF Len(stack) = 1 THEN "done" ELSE "running"

Continue(fr) ==
    /\ stack' = [stack EXCEPT ![Len(stack)] = fr]
    /\ UNCHANGED <<ret, rets, status>>

Panic ==
    /\ status' = "panic"
    /\ UNCHANGED <<stack, ret, rets>>

\* main: one call of hashSomething on the start path.
Start ==
    /\ status = "idle"
    /\ status' = "running"
    /\ stack' = <<Frame(Root)>>
    /\ runs' = runs + 1
    /\ UNCHANGED <<fs, env, ret, rets, log, prevRets>>

\* fi, err := fsx.Lstat(fsys, pth) and the switch on the type
Lstat ==
    /\ Running
    /\ Top.pc = "lstat"
    /\ LET fr == Top
           fi == FsLstat(fs, fr.pth)
           fr1 == [fr EXCEPT !.mode = fi.mode]
           fr2 == [fr1 EXCEPT !.claimedSize = fi.size,
                              !.preamble = BlobPreamble(fi.size)]
           br == TypeSwitch(fi.mode)
       IN  /\ log' = Append(log, LogEntry("lstat", fr.pth, fi.ok, fi.mode, <<>>, <<>>))
           /\ IF ~fi.ok
              THEN Return(fr, ZeroHash, Error(ErrIO, fr.pth, "", 0, 0), NoData)
              ELSE CASE br = "file" -> Continue([fr2 EXCEPT !.pc = "open"])
                     [] br = "symlink" -> Continue([fr2 EXCEPT !.pc = "readlink"])
                     [] br = "dir" -> Continue([fr1 EXCEPT !.pc = "readdir"])
                     [] br = "panic" -> Panic
                     [] OTHER ->
                          Return(fr1, ZeroHash, NewErrUnsupportedFileType(br, fr.pth), NoData)
    /\ UNCHANGED <<fs, env, runs, prevRets>>

\* f, err := fsys.Open(pth)
Open ==
    /\ Running
    /\ Top.pc = "open"
    /\ \E f \in FsOpen(fs, Top.pth) :
          /\ log' = Append(log, LogEntry("open", Top.pth, f.ok, Top.mode, <<>>, <<>>))
          /\ IF ~f.ok
             THEN Return(Top, ZeroHash, Error(ErrIO, Top.pth, "", 0, 0), NoData)
             ELSE Continue([Top EXCEPT !.f = f, !.pc = "stream"])
    /\ UNCHANGED <<fs, env, runs, prevRets>>

\* The end of a leaf call: the size check on what hashStream covered.
LeafResult(fr, hs, data) ==
    LET contentSize == hs.contentSize - ByteLen(fr.preamble)
    IN  IF SizeMismatch(contentSize, fr.claimedSize)
        THEN Return(fr, hs.hash,
                    Error(ErrConcurrentIO, fr.pth, "", fr.claimedSize, contentSize), data)
        ELSE Return(fr, hs.hash, NoErr, data)

\* hashStream(io.MultiReader(&preamble, f)) and the size check
Stream ==
    /\ Running
    /\ Top.pc = "stream"
    /\ LET fr == Top
           rd == FsRead(fs, fr.pth, fr.f)
           hs == hashStream(fr.preamble \o Bytes(rd.data), rd.ok, fr.pth)
       IN  /\ log' = Append(log, LogEntry("read", fr.pth, rd.ok, fr.mode, <<>>, <<>>))
           /\ IF hs.err # NoErr
              THEN Return(fr, ZeroHash, hs.err, NoData)
              ELSE LeafResult(fr, hs, rd.data)
    /\ UNCHANGED <<fs, env, runs, prevRets>>

\* target, err := fsx.Readlink(fsys, pth), hashStream over memory, size check
Readlink ==
    /\ Running
    /\ Top.pc = "readlink"
    /\ LET fr == Top
           rl == FsReadlink(fs, fr.pth)
           hs == hashStream(fr.preamble \o Bytes(rl.target), TRUE, fr.pth)
       IN  /\ log' = Append(log, LogEntry("readlink", fr.pth, rl.ok, fr.mode, <<>>, <<>>))
           /\ IF ~rl.ok
              THEN Return(fr, ZeroHash, Error(ErrConcurrentIO, fr.pth, "", 0, 0), NoData)
              ELSE IF hs.err # NoErr THEN Panic
              ELSE LeafResult(fr, hs, rl.target)
    /\ UNCHANGED <<fs, env, runs, prevRets>>

\* The head of the loop over dirEnts: call hashSomething on the next entry,
\* or, after the last one, hash the tree object and return.
Iterate(fr) ==
    IF fr.i <= Len(fr.dirEnts)
    THEN /\ stack' = Append([stack EXCEPT ![Len(stack)] = [fr EXCEPT !.pc = "child"]],
                            Frame(Join(fr.pth, fr.dirEnts[fr.i])))
         /\ ret' = NoRet
         /\ UNCHANGED <<rets, status>>
    ELSE LET hs == hashStream(TreeObject(fr.buf), TRUE, fr.pth)
         IN  IF hs.err # NoErr THEN Panic
             ELSE Return([fr EXCEPT !.pc = "tree"], hs.hash, NoErr, NoData)

\* dirEnts, err := fsx.ReadDir(fsys, pth)
ReadDir ==
    /\ Running
    /\ Top.pc = "readdir"
    /\ LET fr == Top
           rd == FsReadDir(fs, fr.pth)
       IN  /\ log' = Append(log, LogEntry("readdir", fr.pth, rd.ok, fr.mode, rd.ents, rd.types))
           /\ IF ~rd.ok
              THEN Return(fr, ZeroHash, Error(ErrIO, fr.pth, "", 0, 0), NoData)
              ELSE Iterate([fr EXCEPT !.dirEnts = VisitOrder(rd.ents), !.i = 1])
    /\ UNCHANGED <<fs, env, runs, prevRets>>

\* The loop body after the recursive call returned.
ChildReturn ==
    /\ Running
    /\ Top.pc = "child"
    /\ ret.set
    /\ LET fr == Top
           modeString == ModeString(ret.mode)
       IN  IF ChildFailed(ret.err)
           THEN Return(fr, ZeroHash, ret.err, NoData)
           ELSE IF modeString = <<>> THEN Panic
           ELSE Iterate([fr EXCEPT
                    !.buf = @ \o EntryRecord(modeString, fr.dirEnts[fr.i], ret.hash),
                    !.i = @ + 1])
    /\ UNCHANGED <<fs, env, log, runs, prevRets>>

\* The program is run once more.
Again ==
    /\ status = "done"
    /\ runs = 1
    /\ status' = "idle"
    /\ prevRets' = rets
    /\ rets' = <<>>
    /\ log' = <<>>
    /\ ret' = NoRet
    /\ UNCHANGED <<fs, env, stack, runs>>

----------------------------------------------------------------------------
(* Specifications *)

Init ==
    /\ fs = <<>>
    /\ env = [n |-> 0, during |-> FALSE, between |-> <<>>]
    /\ status = "idle"
    /\ stack = <<>>
    /\ ret = NoRet
    /\ rets = <<>>
    /\ log = <<>>
    /\ runs = 0
    /\ prevRets = <<>>

Program == Lstat \/ Open \/ Stream \/ Readlink \/ ReadDir \/ ChildReturn

\* One run, while other processes change the filesystem at any time.  (A new
\* entry is listed at any place, so every enumeration order occurs.)
EnvActive == status \in {"idle", "running"} /\ env.n < MaxEnvOps

Next ==
    \/ runs = 0 /\ Start
    \/ Program
    \/ \E p \in Slots(fs), n \in AllNodes, pos \in 1..3 : EnvActive /\ EnvPut(p, n, pos)
    \/ \E p \in DOMAIN fs : EnvActive /\ EnvRemove(p)

Spec == Init /\ [][Next]_vars

\* Two runs on a filesystem nobody changes while the program runs: it is built
\* before the first run, of regular files, symlinks and directories, and one
\* change may be made to it between the two runs.
EnvQuiet ==
    /\ status = "idle"
    /\ \/ runs = 0 /\ env.n < MaxSetup
       \/ runs = 1 /\ env.between = <<>>

NextTwice ==
    \/ Start
    \/ Program
    \/ Again
    \/ \E p \in Slots(fs), n \in QuietNodes, pos \in 1..3 : EnvQuiet /\ EnvPut(p, n, pos)
    \/ \E p \in DOMAIN fs : EnvQuiet /\ EnvRemove(p)
    \/ \E p \in DOMAIN fs : \E o \in Orders(fs[p].ents) : EnvQuiet /\ EnvReorder(p, o)

SpecTwice == Init /\ [][NextTwice]_vars

----------------------------------------------------------------------------
(* What the claims speak of, stated without the program's own operators *)

Decimal(n) ==
    IF n < 10 THEN <<48 + n>>
    ELSE IF n < 100 THEN <<48 + (n \div 10), 48 + (n % 10)>>
    ELSE <<48 + (n \div 100), 48 + ((n \div 10) % 10), 48 + (n % 10)>>

BlobDigest(c) == sha256(Bytes(<<98, 108, 111, 98, 32>> \o Decimal(Len(c)) \o <<0>> \o c))

AnyExecuteBit(perm) ==
    \/ (perm \div 64) % 2 = 1
    \/ (perm \div 8) % 2 = 1
    \/ perm % 2 = 1

ModeDigits(mode) ==
    IF mode.type = {ModeDir} THEN <<52, 48, 48, 48, 48>>
    ELSE IF mode.type = {ModeSymlink} THEN <<49, 50, 48, 48, 48, 48>>
    ELSE IF AnyExecuteBit(mode.perm) THEN <<49, 48, 48, 55, 53, 53>>
    ELSE <<49, 48, 48, 54, 52, 52>>

\* A child as the parent records it: r is [mode, name, hash].
RecordBytes(r) == Bytes(ModeDigits(r.mode) \o <<32>> \o r.name \o <<0>>) \o <<r.hash>>
RecordLen(r) == Len(ModeDigits(r.mode)) + 1 + Len(r.name) + 1 + 32

RECURSIVE BodyBytes(_)
BodyBytes(rs) == IF rs = <<>> THEN <<>> ELSE RecordBytes(Head(rs)) \o BodyBytes(Tail(rs))

RECURSIVE BodyLen(_)
BodyLen(rs) == IF rs = <<>> THEN 0 ELSE RecordLen(Head(rs)) + BodyLen(Tail(rs))

TreeDigest(rs) ==
    sha256(Bytes(<<116, 114, 101, 101, 32>> \o Decimal(BodyLen(rs)) \o <<0>>) \o BodyBytes(rs))

\* The finished calls on the entries of directory p, in order of return.
KidsOf(p) == SelectSeq(rets, LAMBDA c : c.pth # Root /\ Parent(c.pth) = p)

LstatsOf(p) == {j \in DOMAIN log : log[j].op = "lstat" /\ log[j].path = p}
OpsOf(p) == {log[j].op : j \in {i \in DOMAIN log : log[i].path = p}}
LstatMode(p) == log[CHOOSE j \in LstatsOf(p) : TRUE].mode
ListingOf(p) == log[CHOOSE j \in DOMAIN log : log[j].op = "readdir" /\ log[j].path = p]
LastOp(p) ==
    log[CHOOSE j \in DOMAIN log :
            /\ log[j].path = p
            /\ \A i \in DOMAIN log : log[i].path = p => i <= j]

IsLeafRead(c) == c.data # NoData
Failing(c) == c.err # NoErr
Kinds == {ErrUnsupportedFileType, ErrIO, ErrConcurrentIO}

----------------------------------------------------------------------------
(* C1 *)

\* C1: a call on a regular file or a symlink that read the content returns
\* success only if the number of content bytes read equals the size Lstat
\* claimed; when they differ the call fails with the concurrent-I/O kind,
\* reporting the path, the claimed size and the observed size.
C1_SizeConsistency ==
    \A k \in DOMAIN rets :
        LET c == rets[k]
        IN  IsLeafRead(c) =>
              /\ c.err = NoErr => Len(c.data) = c.claimed
              /\ Len(c.data) # c.claimed =>
                    c.err = Error(ErrConcurrentIO, c.pth, "", c.claimed, Len(c.data))

C1_Witness ==
    \E k \in DOMAIN rets :
        /\ rets[k].branch = "stream"
        /\ IsLeafRead(rets[k])
        /\ Len(rets[k].data) < rets[k].claimed
        /\ rets[k].err.kind = ErrConcurrentIO

----------------------------------------------------------------------------
(* C2 *)

\* C2 (as claimed): two runs over a directory tree whose entries did not
\* change, only the order in which directories enumerate them, return the
\* same digest.
C2_OrderInvariant ==
    (/\ status = "done"
     /\ runs = 2
     /\ env.between # <<>>
     /\ \A k \in DOMAIN env.between : env.between[k].op = "reorder")
        => ret.hash = prevRets[Len(prevRets)].hash

----------------------------------------------------------------------------
(* C3 *)

Failed == status = "panic" \/ (ret.set /\ ret.err # NoErr)

\* Entries are visited in listing order, a whole subtree at a time, and an
\* entry is started only after every earlier one returned success.
C3_DepthFirst ==
    \A r \in DOMAIN log :
        (log[r].op = "readdir" /\ log[r].ok) =>
            \A j1, j2 \in DOMAIN log[r].ents :
                j1 < j2 =>
                    LET early == Join(log[r].path, log[r].ents[j1])
                        late == Join(log[r].path, log[r].ents[j2])
                    IN  /\ \A x, y \in DOMAIN log :
                              (IsPrefix(late, log[x].path) /\ IsPrefix(early, log[y].path))
                                  => y < x
                        /\ LstatsOf(late) # {} =>
                              \E k \in DOMAIN rets :
                                  rets[k].pth = early /\ rets[k].err = NoErr

\* The first call that fails names its own path, and every call that returns
\* after it is an enclosing directory's, returning that very error.
C3_FirstWins ==
    /\ \A k \in DOMAIN rets :
          (Failing(rets[k]) /\ \A j \in 1..(k - 1) : ~Failing(rets[j])) =>
              /\ rets[k].err.path = rets[k].pth
              /\ \A j \in (k + 1)..Len(rets) :
                    /\ rets[j].err = rets[k].err
                    /\ IsPrefix(rets[j].pth, rets[k].pth)
    /\ status = "done" => (rets[Len(rets)].pth = Root /\ ret.err = rets[Len(rets)].err)

C3_NestedPipe ==
    status = "done" =>
        \A j \in DOMAIN log :
            /\ (log[j].op = "lstat" /\ log[j].mode.type = {ModeNamedPipe}) =>
                  ret.err = Error(ErrUnsupportedFileType, log[j].path, "pipe", 0, 0)
            /\ (log[j].op = "lstat" /\ log[j].mode.type = {ModeSocket}) =>
                  ret.err = Error(ErrUnsupportedFileType, log[j].path, "socket", 0, 0)

C3_NothingAfterFailure ==
    Failed =>
        /\ log' = log
        /\ status = "panic" => status' = "panic"
        /\ status # "panic" => (ret'.set /\ ret'.err = ret.err)

\* C3: children are hashed one at a time in listing order, each subtree
\* whole; the first failure is the result of every enclosing call up to the
\* root, kind and path unchanged; after it no filesystem call is made; a pipe
\* or socket anywhere in the tree fails the root call with the
\* unsupported-file-type kind naming that path.
C3_FailFast ==
    /\ [](C3_DepthFirst /\ C3_FirstWins /\ C3_NestedPipe)
    /\ [][C3_NothingAfterFailure]_vars

C3_Witness ==
    /\ status = "done"
    /\ ret.err # NoErr
    /\ \E r \in DOMAIN log :
          /\ log[r].op = "readdir"
          /\ Len(log[r].ents) = 2
          /\ LstatsOf(Join(log[r].path, log[r].ents[1])) # {}
          /\ LstatsOf(Join(log[r].path, log[r].ents[2])) = {}

----------------------------------------------------------------------------
(* C4 *)

\* C4 (as claimed): no run panics, and a call whose Lstat gives a type other
\* than regular file, symlink or directory returns the unsupported-file-type
\* error with the type's name and the path, the zero hash, and touches the
\* path no further.
C4_UnsupportedTypesFail ==
    /\ status # "panic"
    /\ \A j \in DOMAIN log :
          (/\ log[j].op = "lstat"
           /\ log[j].ok
           /\ log[j].mode.type \notin {{}, {ModeSymlink}, {ModeDir}}) =>
              /\ OpsOf(log[j].path) = {"lstat"}
              /\ \E k \in DOMAIN rets :
                    /\ rets[k].pth = log[j].path
                    /\ rets[k].hash = ZeroHash
                    /\ rets[k].err.kind = ErrUnsupportedFileType
                    /\ rets[k].err.path = log[j].path
                    /\ rets[k].err.typ \in {"pipe", "socket", "device", "irregular"}

----------------------------------------------------------------------------
(* C5 *)

\* C5: a successful call on a regular file or symlink returns the digest of
\* "blob ", the decimal length of the content read, a zero byte and that
\* content, with the object's own type; when nothing changed the filesystem
\* during the run the content is the one the object has.
C5_BlobEncoding ==
    \A k \in DOMAIN rets :
        LET c == rets[k]
        IN  (IsLeafRead(c) /\ c.err = NoErr) =>
              /\ c.hash = BlobDigest(c.data)
              /\ c.data = <<>> => c.hash = sha256(Bytes(<<98, 108, 111, 98, 32, 48, 0>>))
              /\ c.branch = "stream" => c.mode.type = {}
              /\ c.branch = "readlink" => c.mode.type = {ModeSymlink}
              /\ ~env.during =>
                    /\ c.data = NodeAt(fs, c.pth).data
                    /\ c.mode.type = TypeBits(NodeAt(fs, c.pth).kind)

C5_Witness ==
    /\ status = "done"
    /\ ~env.during
    /\ \E j, k \in DOMAIN rets :
          /\ rets[j].branch = "stream" /\ rets[j].err = NoErr /\ Len(rets[j].data) = 1
          /\ rets[k].branch = "readlink" /\ rets[k].err = NoErr /\ Len(rets[k].data) > 9

----------------------------------------------------------------------------
(* C6 *)

KidRecords(p) ==
    LET kids == KidsOf(p)
    IN  [k \in 1..Len(kids) |->
            [mode |-> kids[k].mode, name |-> Last(kids[k].pth), hash |-> kids[k].hash]]

\* C6: a successful call on a directory returns the digest of "tree ", the
\* decimal byte length of the body, a zero byte and the body: one record per
\* listed entry, mode-string, space, name, zero byte, the entry's digest,
\* nothing between or after the records.
C6_TreeEncoding ==
    \A k \in DOMAIN rets :
        LET d == rets[k]
            rs == KidRecords(d.pth)
        IN  d.branch = "tree" =>
              /\ d.err = NoErr
              /\ d.mode.type = {ModeDir}
              /\ [j \in 1..Len(rs) |-> rs[j].name] = ListingOf(d.pth).ents
              /\ d.hash = TreeDigest(rs)
              /\ rs = <<>> => d.hash = sha256(Bytes(<<116, 114, 101, 101, 32, 48, 0>>))

C6_Witness ==
    /\ status = "done"
    /\ ret.err = NoErr
    /\ Len(KidRecords(Root)) = 2
    /\ \E j \in 1..2 :
          /\ KidRecords(Root)[j].mode.type = {}
          /\ AnyExecuteBit(KidRecords(Root)[j].mode.perm)

----------------------------------------------------------------------------
(* C7 *)

HashOf(rs, p) == rs[CHOOSE k \in DOMAIN rs : rs[k].pth = p].hash
Visited(rs) == {rs[k].pth : k \in DOMAIN rs}

LeafMutation(e) ==
    /\ e.op = "put"
    /\ e.old.kind \in {"file", "symlink"}
    /\ e.new.kind = e.old.kind
    /\ e.new.perm = e.old.perm
    /\ e.new.data # e.old.data

OneLeafMutated ==
    /\ status = "done"
    /\ runs = 2
    /\ Len(env.between) = 1
    /\ LeafMutation(env.between[1])

\* C7: when between two runs the content of exactly one leaf changed, the
\* digest of that leaf and of every directory above it differs between the
\* runs, and the digest of every other object is the same in both.
C7_LeafMutation ==
    OneLeafMutated =>
        LET q == env.between[1].path
        IN  /\ Visited(rets) = DOMAIN fs
            /\ Visited(prevRets) = DOMAIN fs
            /\ \A p \in DOMAIN fs :
                  IF IsPrefix(p, q)
                  THEN HashOf(rets, p) # HashOf(prevRets, p)
                  ELSE HashOf(rets, p) = HashOf(prevRets, p)

C7_Witness ==
    /\ OneLeafMutated
    /\ ret.err = NoErr
    /\ Len(env.between[1].path) = 2
    /\ Len(env.between[1].new.data) = Len(env.between[1].old.data)

----------------------------------------------------------------------------
(* C8 *)

\* C8 (as claimed): every call that fails returns an error of one of the
\* three kinds, the kind fixed by where it failed; a directory call returns
\* its entry's error as it is; no run ends otherwise.
C8_ErrorKinds ==
    /\ status # "panic"
    /\ \A k \in DOMAIN rets :
          LET c == rets[k]
              e == LastOp(c.pth)
          IN  Failing(c) =>
                /\ c.err.kind \in Kinds
                /\ (e.op = "lstat" /\ ~e.ok) => c.err.kind = ErrIO
                /\ (e.op = "lstat" /\ e.ok) => c.err.kind = ErrUnsupportedFileType
                /\ e.op = "open" => c.err.kind = ErrIO
                /\ (e.op = "read" /\ ~e.ok) => c.err.kind = ErrIO
                /\ (e.op = "read" /\ e.ok) => c.err.kind = ErrConcurrentIO
                /\ e.op = "readlink" => c.err.kind = ErrConcurrentIO
                /\ (e.op = "readdir" /\ ~e.ok) => c.err.kind = ErrIO
                /\ (e.op = "readdir" /\ e.ok) => (k > 1 /\ c.err = rets[k - 1].err)
                /\ k < Len(rets) => rets[k + 1].err = c.err

----------------------------------------------------------------------------
(* C9 *)

\* C9 (as claimed): a call that returns an error returns the all-zero hash.
C9_ZeroHashOnError ==
    \A k \in DOMAIN rets : Failing(rets[k]) => rets[k].hash = ZeroHash

----------------------------------------------------------------------------
(* C10 *)

IsTreeDigest(h) ==
    /\ h[1] = -1
    /\ Len(h[2]) >= 5
    /\ SubSeq(h[2], 1, 5) = Bytes(<<116, 114, 101, 101, 32>>)

IsBlobDigest(h) ==
    /\ h[1] = -1
    /\ Len(h[2]) >= 5
    /\ SubSeq(h[2], 1, 5) = Bytes(<<98, 108, 111, 98, 32>>)

Suffix(s, n) == SubSeq(s, Len(s) - n + 1, Len(s))

LstatRecords(p) ==
    LET kids == KidsOf(p)
    IN  [k \in 1..Len(kids) |->
            [mode |-> LstatMode(kids[k].pth), name |-> Last(kids[k].pth),
             hash |-> kids[k].hash]]

\* C10: every visited path is lstat-ed once; the mode a call returns is the
\* one that Lstat gave, the digest it returns was computed the way of that
\* type, and the mode-string a directory records for an entry is the one of
\* the entry's own Lstat.
C10_TypeRecordAgreement ==
    /\ \A j \in DOMAIN log : Cardinality(LstatsOf(log[j].path)) = 1
    /\ \A k \in DOMAIN rets :
          LET c == rets[k]
          IN  /\ Cardinality(LstatsOf(c.pth)) = 1
              /\ c.mode = LstatMode(c.pth)
              /\ c.err = NoErr =>
                    \/ /\ c.mode.type = {}
                       /\ IsBlobDigest(c.hash)
                       /\ OpsOf(c.pth) = {"lstat", "open", "read"}
                    \/ /\ c.mode.type = {ModeSymlink}
                       /\ IsBlobDigest(c.hash)
                       /\ OpsOf(c.pth) = {"lstat", "readlink"}
                    \/ /\ c.mode.type = {ModeDir}
                       /\ IsTreeDigest(c.hash)
                       /\ OpsOf(c.pth) = {"lstat", "readdir"}
              /\ c.branch = "tree" =>
                    LET body == BodyBytes(LstatRecords(c.pth))
                    IN  /\ Len(c.hash[2]) >= Len(body)
                        /\ Suffix(c.hash[2], Len(body)) = body

C10_Witness ==
    /\ status = "done"
    /\ ret.err = NoErr
    /\ env.during
    /\ \E r \in DOMAIN log :
          /\ log[r].op = "readdir"
          /\ \E j \in DOMAIN log[r].ents :
                LET q == Join(log[r].path, log[r].ents[j])
                IN  /\ LstatsOf(q) # {}
                    /\ LstatMode(q).type # log[r].types[j]

====
